---- MODULE Spec2Model ----
(***************************************************************************)
(* Blakecoin: the Blake-256 (14 round) hash engine CBlake256 and the       *)
(* difficulty controller (GetNextWorkRequired, CalculateNextWorkRequired,  *)
(* CheckProofOfWork).                                                      *)
(*                                                                         *)
(* A uint32_t is a pair <<hi, lo>> of 16-bit halves (an integer of the model *)
(* is 32-bit signed, so a uint32_t does not fit in one);                   *)
(* an arith_uint256 is its 32 bytes, least significant first.              *)
(***************************************************************************)
EXTENDS Integers, Sequences, FiniteSets, TLC

VARIABLES
    \* ---- CBlake256 (blake256.h:15-19) ----
    h,          \* uint32_t h[8]
    t,          \* uint32_t t[2]
    buf,        \* the 64 bytes of uint32_t buf[16]
    buflen,     \* size_t buflen
    nullt,      \* size_t nullt
    \* ---- the caller of CBlake256 and the frame of a running Finalize ----
    pc,         \* "idle", a position inside Finalize, or "done"
    msglen,     \* uint8_t msglen[8], local of Finalize
    hash,       \* unsigned char hash[32], the output of Finalize
    seed,       \* which input stream the caller hashes
    written,    \* bytes of the stream passed to Write since the last Reset
    ncompress,  \* compressions since the last Reset
    fincompress,\* compressions made by the running Finalize
    calls,      \* the Write and Reset calls the caller has made, and the
                \* Finalize calls and the lengths of the Writes since the
                \* last Reset
    \* ---- the block index and the consensus parameters ----
    chain,      \* the CBlockIndex entries, oldest first, linked by pprev
    params,     \* Consensus::Params
    last,       \* the last call of the difficulty controller and its result
    \* ---- CThreadInterrupt (threadinterrupt.h) and the threads using it ----
    flag,       \* std::atomic<bool> flag
    mut,        \* std::mutex mut: the thread that holds it, or "none"
    cond,       \* std::condition_variable cond: the threads blocked on it
    tpc,        \* where each thread is inside a member function, or "idle"
    result,     \* what each thread's last sleep_for or operator bool returned
    obs         \* which calls of operator() and reset() have been made

hashVars == <<h, t, buf, buflen, nullt, pc, msglen, hash, seed, written,
              ncompress, fincompress, calls>>
powVars == <<chain, params, last>>
intVars == <<flag, mut, cond, tpc, result, obs>>
vars == <<hashVars, powVars, intVars>>

-----------------------------------------------------------------------------
(* uint32_t arithmetic                                                     *)

Pow2(n) == 2^n

\* a uint32_t from a small non-negative integer
W32(n) == <<n \div 65536, n % 65536>>

Xor4 ==
    [a \in 0..15 |-> [b \in 0..15 |->
        (((a % 2) + (b % 2)) % 2)
        + 2 * ((((a \div 2) % 2) + ((b \div 2) % 2)) % 2)
        + 4 * ((((a \div 4) % 2) + ((b \div 4) % 2)) % 2)
        + 8 * ((((a \div 8) % 2) + ((b \div 8) % 2)) % 2)]]

Xor8(a, b) == 16 * Xor4[a \div 16][b \div 16] + Xor4[a % 16][b % 16]

Xor16(a, b) == 256 * Xor8(a \div 256, b \div 256) + Xor8(a % 256, b % 256)

Xor32(x, y) == <<Xor16(x[1], y[1]), Xor16(x[2], y[2])>>

Add32(x, y) ==
    LET lo == x[2] + y[2]
    IN  <<(x[1] + y[1] + (lo \div 65536)) % 65536, lo % 65536>>

Sub32(x, y) ==
    LET lo == x[2] - y[2]
        borrow == IF lo < 0 THEN 1 ELSE 0
    IN  <<(x[1] - y[1] - borrow + 65536) % 65536, (lo + 65536) % 65536>>

Not32(x) == <<65535 - x[1], 65535 - x[2]>>

Lt32(x, y) == x[1] < y[1] \/ (x[1] = y[1] /\ x[2] < y[2])

\* ROT(x, n): rotate right by n, 0 < n <= 16
ROT(x, n) ==
    IF n = 16 THEN <<x[2], x[1]>>
    ELSE <<(x[1] \div Pow2(n)) + (x[2] % Pow2(n)) * Pow2(16 - n),
           (x[2] \div Pow2(n)) + (x[1] % Pow2(n)) * Pow2(16 - n)>>

-----------------------------------------------------------------------------
(* Blake-256 tables                                                        *)

blake256_iv ==
    [i \in 0..7 |->
        << <<27145, 58983>>, <<47975, 44677>>, <<15470, 62322>>, <<42319, 62778>>,
           <<20750, 21119>>, <<39685, 26764>>, <<8067, 55723>>, <<23520, 52505>> >>[i + 1]]

blake256_sigma ==
    [r \in 0..13 |-> [i \in 0..15 |->
        << <<0, 1, 2, 3, 4, 5, 6, 7, 8, 9, 10, 11, 12, 13, 14, 15>>,
           <<14, 10, 4, 8, 9, 15, 13, 6, 1, 12, 0, 2, 11, 7, 5, 3>>,
           <<11, 8, 12, 0, 5, 2, 15, 13, 10, 14, 3, 6, 7, 1, 9, 4>>,
           <<7, 9, 3, 1, 13, 12, 11, 14, 2, 6, 5, 10, 4, 0, 15, 8>>,
           <<9, 0, 5, 7, 2, 4, 10, 15, 14, 1, 11, 12, 6, 8, 3, 13>>,
           <<2, 12, 6, 10, 0, 11, 8, 3, 4, 13, 7, 5, 15, 14, 1, 9>>,
           <<12, 5, 1, 15, 14, 13, 4, 10, 0, 7, 6, 3, 9, 2, 8, 11>>,
           <<13, 11, 7, 14, 12, 1, 3, 9, 5, 0, 15, 4, 8, 6, 2, 10>>,
           <<6, 15, 14, 9, 11, 3, 0, 8, 12, 2, 13, 7, 1, 4, 10, 5>>,
           <<10, 2, 8, 4, 7, 6, 1, 5, 15, 11, 9, 14, 3, 12, 13, 0>>,
           <<0, 1, 2, 3, 4, 5, 6, 7, 8, 9, 10, 11, 12, 13, 14, 15>>,
           <<14, 10, 4, 8, 9, 15, 13, 6, 1, 12, 0, 2, 11, 7, 5, 3>>,
           <<11, 8, 12, 0, 5, 2, 15, 13, 10, 14, 3, 6, 7, 1, 9, 4>>,
           <<7, 9, 3, 1, 13, 12, 11, 14, 2, 6, 5, 10, 4, 0, 15, 8>> >>[r + 1][i + 1]]]

blake256_cst ==
    [i \in 0..15 |->
        << <<9279, 27272>>, <<34211, 2259>>, <<4889, 35374>>, <<880, 29508>>,
           <<41993, 14370>>, <<10655, 12752>>, <<2094, 64152>>, <<60494, 27785>>,
           <<17704, 8678>>, <<14544, 4983>>, <<48724, 26319>>, <<13545, 3180>>,
           <<49324, 10679>>, <<51580, 20701>>, <<16260, 54709>>, <<46407, 2327>> >>[i + 1]]

\* the rounds of one compression
Rounds == 14

-----------------------------------------------------------------------------
(* CBlake256::compress                                                     *)

\* the k-th of the eight statements of the G macro, on v[a], v[b], v[c], v[d]
\* in round e at sigma position i
GStatement(v, m, a, b, c, d, e, i, k) ==
    CASE k = 1 -> [v EXCEPT ![a] = Add32(v[a],
                        Add32(Xor32(m[blake256_sigma[e][i]],
                                    blake256_cst[blake256_sigma[e][i + 1]]), v[b]))]
      [] k = 2 -> [v EXCEPT ![d] = ROT(Xor32(v[d], v[a]), 16)]
      [] k = 3 -> [v EXCEPT ![c] = Add32(v[c], v[d])]
      [] k = 4 -> [v EXCEPT ![b] = ROT(Xor32(v[b], v[c]), 12)]
      [] k = 5 -> [v EXCEPT ![a] = Add32(v[a],
                        Add32(Xor32(m[blake256_sigma[e][i + 1]],
                                    blake256_cst[blake256_sigma[e][i]]), v[b]))]
      [] k = 6 -> [v EXCEPT ![d] = ROT(Xor32(v[d], v[a]), 8)]
      [] k = 7 -> [v EXCEPT ![c] = Add32(v[c], v[d])]
      [] OTHER -> [v EXCEPT ![b] = ROT(Xor32(v[b], v[c]), 7)]

\* the statements of the G macro from the k-th on
RECURSIVE GFrom(_, _, _, _, _, _, _, _, _)
GFrom(v, m, a, b, c, d, e, i, k) ==
    IF k <= 8
    THEN GFrom(GStatement(v, m, a, b, c, d, e, i, k), m, a, b, c, d, e, i, k + 1)
    ELSE v

\* the G macro
G(v, m, a, b, c, d, e, i) == GFrom(v, m, a, b, c, d, e, i, 1)

\* the eight G calls of one round, in order: a, b, c, d, i
GCalls ==
    << <<0, 4, 8, 12, 0>>, <<1, 5, 9, 13, 2>>, <<2, 6, 10, 14, 4>>, <<3, 7, 11, 15, 6>>,
       <<3, 4, 9, 14, 14>>, <<2, 7, 8, 13, 12>>, <<0, 5, 10, 15, 8>>, <<1, 6, 11, 12, 10>> >>

\* the G calls of round r from the k-th on; AfterG only makes the call's
\* result w be computed before the next call starts
RECURSIVE GLoop(_, _, _, _)
RECURSIVE AfterG(_, _, _, _)
GLoop(v, m, r, k) ==
    IF k <= Len(GCalls)
    THEN AfterG(G(v, m, GCalls[k][1], GCalls[k][2], GCalls[k][3], GCalls[k][4],
                  r, GCalls[k][5]), m, r, k)
    ELSE v
AfterG(w, m, r, k) ==
    IF w[0] = w[0] THEN GLoop(w, m, r, k + 1) ELSE w

\* a variant without the first G call of the round; C22 tells it from the
\* code
Round_SkipsFirst(v, m, r) == GLoop(v, m, r, 2)

\* the body of the round loop
Round(v, m, r) == GLoop(v, m, r, 1)

\* for (r = from; r < Rounds; r++); AfterRound only makes the round's
\* result w be computed before the next round starts
RECURSIVE RoundLoop(_, _, _)
RECURSIVE AfterRound(_, _, _)
RoundLoop(v, m, r) ==
    IF r < Rounds THEN AfterRound(Round(v, m, r), m, r) ELSE v
AfterRound(w, m, r) ==
    IF w[0] = w[0] THEN RoundLoop(w, m, r + 1) ELSE w

\* bytes to words, least significant byte first
BlockWords(block) ==
    [i \in 0..15 |->
        <<block[i * 4 + 2] + 256 * block[i * 4 + 3],
          block[i * 4 + 0] + 256 * block[i * 4 + 1]>>]

\* v[0..7] = h[0..7], v[8..15] = iv[0..7], the counter and the null-t flag
InitialV(s) ==
    [i \in 0..15 |->
        IF i < 8 THEN s.h[i]
        ELSE IF i = 12 THEN Xor32(blake256_iv[4], s.t[0])
        ELSE IF i = 13 THEN Xor32(blake256_iv[5], s.t[1])
        ELSE IF i = 14 /\ s.nullt # 0 THEN Not32(blake256_iv[6])
        ELSE blake256_iv[i - 8]]

\* h[i] ^= v[i] ^ v[i + 8]
UpdateH(hh, v) == [i \in 0..7 |-> Xor32(hh[i], Xor32(v[i], v[i + 8]))]

\* a variant that empties the buffer; C30 tells it from the code
compress_ClearsBuflen(s, block) ==
    [s EXCEPT !.h = UpdateH(s.h, RoundLoop(InitialV(s), BlockWords(block), 0)),
              !.buflen = 0,
              !.ncomp = @ + 1]

\* compress(block) on an object s; s.ncomp counts the calls
compress(s, block) ==
    [s EXCEPT !.h = UpdateH(s.h, RoundLoop(InitialV(s), BlockWords(block), 0)),
              !.ncomp = @ + 1]

-----------------------------------------------------------------------------
(* CBlake256::Reset, Write, Finalize as functions of the object            *)
(* s = [h, t, buf, buflen, nullt] (and ncomp, the count of compressions)   *)

\* Reset keeps the bytes of buf
\* a variant that keeps the bit counter; C15 tells it from the code
ResetObj_KeepsCounter(s) ==
    [s EXCEPT !.h = blake256_iv,
              !.buflen = 0,
              !.nullt = 0]

\* a variant that keeps the buffer fill count; C14 tells it from the code
ResetObj_KeepsBuflen(s) ==
    [s EXCEPT !.h = blake256_iv,
              !.t = [i \in 0..1 |-> W32(0)],
              !.nullt = 0]

ResetObj(s) ==
    [s EXCEPT !.h = blake256_iv,
              !.t = [i \in 0..1 |-> W32(0)],
              !.buflen = 0,
              !.nullt = 0]

\* a variant without the carry into t[1]; C17 tells it from the code
AdvanceCounter_NoCarry(tt) ==
    [i \in 0..1 |-> IF i = 0 THEN Add32(tt[0], W32(512)) ELSE tt[1]]

\* t[0] += 512; if (t[0] == 0) t[1]++;
AdvanceCounter(tt) ==
    LET t0 == Add32(tt[0], W32(512))
    IN  [i \in 0..1 |-> IF i = 0 THEN t0
                        ELSE IF t0 = W32(0) THEN Add32(tt[1], W32(1)) ELSE tt[1]]

\* memcpy((uint8_t*)buf + at, data + off, n)
CopyIn(b, at, data, off, n) ==
    [i \in 0..63 |-> IF i >= at /\ i < at + n THEN data[off + (i - at) + 1] ELSE b[i]]

\* the 64 bytes at data + off
BlockAt(data, off) == [i \in 0..63 |-> data[off + i + 1]]

\* while (len >= 64) { counter; compress(data); data += 64; len -= 64; }
RECURSIVE WriteLoop(_, _, _)
WriteLoop(s, data, off) ==
    IF Len(data) - off >= 64
    THEN WriteLoop(compress([s EXCEPT !.t = AdvanceCounter(s.t)], BlockAt(data, off)),
                   data, off + 64)
    ELSE s

\* a variant that adds the rest to the old fill count; C16 tells it from
\* the code
StoreRest_OldFill(s, data, off, left) ==
    LET rest == Len(data) - off
    IN  IF rest > 0
        THEN [s EXCEPT !.buf = CopyIn(s.buf, left, data, off, rest),
                       !.buflen = s.buflen + rest]
        ELSE s

\* where the stale value of buflen comes from: it is assigned only when
\* bytes remain after the full blocks
StoreRest(s, data, off, left) ==
    LET rest == Len(data) - off
    IN  IF rest > 0
        THEN [s EXCEPT !.buf = CopyIn(s.buf, left, data, off, rest),
                       !.buflen = left + rest]
        ELSE s

\* the <<offset in buf, length>> of the memcpy calls Write(data, len) makes
\* on the object s
WriteCopies(s, len) ==
    LET left == s.buflen
        fill == 64 - left
        first == left # 0 /\ len >= fill
        rest == IF first THEN (len - fill) % 64 ELSE len % 64
    IN  (IF first THEN {<<left, fill>>} ELSE {})
        \cup (IF rest > 0 THEN {<<IF first THEN 0 ELSE left, rest>>} ELSE {})

Write(s, data) ==
    LET left == s.buflen
        fill == 64 - left
        len == Len(data)
        first == left # 0 /\ len >= fill
        filled == CopyIn(s.buf, left, data, 0, fill)
        s1 == IF first
              THEN compress([s EXCEPT !.buf = filled, !.t = AdvanceCounter(s.t)], filled)
              ELSE s
        off1 == IF first THEN fill ELSE 0
        left1 == IF first THEN 0 ELSE left
        s2 == WriteLoop(s1, data, off1)
        off2 == off1 + 64 * ((len - off1) \div 64)
    IN  StoreRest(s2, data, off2, left1)

\* the four bytes of a uint32_t, most significant first
BytesBE(w) == <<w[1] \div 256, w[1] % 256, w[2] \div 256, w[2] % 256>>

\* Finalize, lines 146-160: the length field
FinalizeLength(s) ==
    LET bits == W32(s.buflen * 8)
        lo == Add32(s.t[0], bits)
        hi == IF Lt32(lo, bits) THEN Add32(s.t[1], W32(1)) ELSE s.t[1]
    IN  BytesBE(hi) \o BytesBE(lo)

SubT0(s, n) == [s EXCEPT !.t[0] = Sub32(@, W32(n))]

\* a variant with the marker byte 0x80 in place of 0x01; C21 tells it from
\* the code
FinalizeMarker_Marker80(s) ==
    LET s1 == IF s.buflen = 55 THEN SubT0(s, 8)
              ELSE IF s.buflen < 55
              THEN SubT0(IF s.buflen = 0 THEN [s EXCEPT !.nullt = 1] ELSE s,
                         440 - s.buflen * 8)
              ELSE SubT0(s, 512 - s.buflen * 8)
    IN  [obj |-> Write(s1, IF s.buflen = 55 THEN <<129>> ELSE <<128>>),
         pc |-> IF s.buflen = 55 THEN "F185"
                ELSE IF s.buflen < 55 THEN "F171" ELSE "F176"]

\* Finalize, lines 162-175: up to and including the Write of the marker byte;
\* the result is the object and the position Finalize has reached
FinalizeMarker(s) ==
    LET s1 == IF s.buflen = 55 THEN SubT0(s, 8)
              ELSE IF s.buflen < 55
              THEN SubT0(IF s.buflen = 0 THEN [s EXCEPT !.nullt = 1] ELSE s,
                         440 - s.buflen * 8)
              ELSE SubT0(s, 512 - s.buflen * 8)
    IN  [obj |-> Write(s1, IF s.buflen = 55 THEN <<129>> ELSE <<1>>),
         pc |-> IF s.buflen = 55 THEN "F185"
                ELSE IF s.buflen < 55 THEN "F171" ELSE "F176"]

\* Finalize is at one of its padding Writes (lines 171-183), not yet at line 185
InPadding(s, at) ==
    at \in {"F171", "F176", "F181"} \/ (at = "F182" /\ s.buflen < 54)

\* Finalize, lines 171-183: the next Write of a zero byte from position at
FinalizeZero(s, at) ==
    LET stay == (at = "F171" /\ s.buflen < 55) \/ (at = "F176" /\ s.buflen # 0)
        \* lines 178-179, when the loop of line 176 exits
        s1 == IF at = "F176" /\ s.buflen = 0
              THEN [SubT0(s, 440) EXCEPT !.nullt = 1]
              ELSE s
    IN  [obj |-> Write(s1, <<0>>), pc |-> IF stay THEN at ELSE "F182"]

\* Finalize, lines 185-186
FinalizeWriteLength(s, len8) == Write(SubT0(s, 64), len8)

\* Finalize, lines 189-194
OutputHash(s) ==
    BytesBE(s.h[0]) \o BytesBE(s.h[1]) \o BytesBE(s.h[2]) \o BytesBE(s.h[3]) \o
    BytesBE(s.h[4]) \o BytesBE(s.h[5]) \o BytesBE(s.h[6]) \o BytesBE(s.h[7])

-----------------------------------------------------------------------------
(* The caller of one CBlake256 instance                                    *)

\* the lengths the caller passes to Write
ChunkLens == {1, 55, 63, 64}

\* the input streams: byte i of stream sd
Seeds == {1}
StreamByte(sd, i) == (sd + 7 * (i % 256)) % 256

\* what the uninitialised bytes of buf may hold at construction
Garbage == {0, 165}

\* Write calls the caller makes on the instance
MaxWriteCalls == 2
\* Reset calls the caller makes after construction
MaxResets == 1
\* Finalize calls the caller makes between two Resets
MaxFinalizes == 1
\* compressions after which a running Finalize is no longer followed
MaxFinalizeCompress == 3

\* data + from, len bytes of the stream
StreamData(sd, from, len) == [k \in 1..len |-> StreamByte(sd, from + k - 1)]

\* the threads that use the CThreadInterrupt: two that sleep and read the
\* flag, one that interrupts, one that resets
Sleepers == {"s1", "s2"}
Interrupters == {"i1"}
Resetters == {"r1"}
Threads == Sleepers \cup Interrupters \cup Resetters

\* no operator() has been called or has returned, no reset() has been
\* called, no sleep_for has been called
NoCalls == [returned |-> FALSE, clean |-> FALSE, sticky |-> FALSE,
            quiet |-> FALSE, cleared |-> FALSE, woken |-> {},
            called |-> FALSE,
            slept |-> [th \in Threads |-> "no"],
            armed |-> [th \in Threads |-> FALSE],
            pred |-> [th \in Threads |-> FALSE],
            seen |-> [th \in Threads |-> "none"]]

\* the CThreadInterrupt, unused
InterruptUnused ==
    /\ flag = FALSE
    /\ mut = "none"
    /\ cond = {}
    /\ tpc = [th \in Threads |-> "idle"]
    /\ result = [th \in Threads |-> "none"]
    /\ obs = NoCalls

Obj == [h |-> h, t |-> t, buf |-> buf, buflen |-> buflen, nullt |-> nullt,
        ncomp |-> ncompress]

\* the fields of the instance become those of s
Becomes(s) ==
    /\ h' = s.h
    /\ t' = s.t
    /\ buf' = s.buf
    /\ buflen' = s.buflen
    /\ nullt' = s.nullt
    /\ ncompress' = s.ncomp

NoPow == [op |-> "none"]

\* CBlake256::CBlake256(): Reset() on uninitialised storage
HashInit ==
    /\ InterruptUnused
    /\ \E g \in Garbage : buf = [i \in 0..63 |-> g]
    /\ h = blake256_iv
    /\ t = [i \in 0..1 |-> W32(0)]
    /\ buflen = 0
    /\ nullt = 0
    /\ pc = "idle"
    /\ msglen = <<>>
    /\ hash = <<>>
    /\ seed \in Seeds
    /\ written = 0
    /\ ncompress = 0
    /\ fincompress = 0
    /\ calls = [write |-> 0, reset |-> 0, final |-> 0, since |-> <<>>]
    /\ chain = <<>>
    /\ params = NoPow
    /\ last = NoPow

\* hasher.Reset()
Reset ==
    /\ pc \in {"idle", "done"}
    /\ calls.reset < MaxResets
    /\ Becomes([ResetObj(Obj) EXCEPT !.ncomp = 0])
    /\ pc' = "idle"
    /\ written' = 0
    /\ fincompress' = 0
    /\ calls' = [calls EXCEPT !.reset = @ + 1, !.final = 0, !.since = <<>>]
    /\ UNCHANGED <<msglen, hash, seed, powVars, intVars>>

\* hasher.Write(data, len) with the next len bytes of the stream, also on
\* an instance that was finalized and not Reset
DoWrite ==
    /\ pc \in {"idle", "done"}
    /\ pc' = "idle"
    /\ fincompress' = 0
    /\ calls.write < MaxWriteCalls
    /\ \E len \in ChunkLens :
        /\ Becomes(Write(Obj, StreamData(seed, written, len)))
        /\ written' = written + len
        /\ calls' = [calls EXCEPT !.write = @ + 1, !.since = Append(@, len)]
    /\ UNCHANGED <<msglen, hash, seed, powVars, intVars>>

\* the running Finalize continues from f.pc with the object f.obj
Continues(f) ==
    /\ Becomes(f.obj)
    /\ pc' = f.pc
    /\ fincompress' = fincompress + (f.obj.ncomp - ncompress)

\* Finalize starts, and reaches f.pc with the object f.obj
Begins(f) ==
    /\ Becomes(f.obj)
    /\ pc' = f.pc
    /\ fincompress' = f.obj.ncomp - ncompress

\* hasher.Finalize(hash), lines 146-175, also on an instance that was
\* finalized and not Reset
FinalizeBegin ==
    /\ pc \in {"idle", "done"}
    /\ calls.final < MaxFinalizes
    /\ Begins(FinalizeMarker(Obj))
    /\ msglen' = FinalizeLength(Obj)
    /\ calls' = [calls EXCEPT !.final = @ + 1]
    /\ UNCHANGED <<hash, seed, written, powVars, intVars>>

\* Finalize, lines 171-183: one Write of a zero byte
FinalizePad ==
    /\ InPadding(Obj, pc)
    /\ fincompress < MaxFinalizeCompress
    /\ Continues(FinalizeZero(Obj, pc))
    /\ UNCHANGED <<msglen, hash, seed, written, calls, powVars, intVars>>

\* Finalize returns with the object s
Returns(s) ==
    /\ Becomes(s)
    /\ hash' = OutputHash(s)
    /\ fincompress' = fincompress + (s.ncomp - ncompress)
    /\ pc' = "done"

\* Finalize, lines 185-194
FinalizeEnd ==
    /\ pc \in {"F182", "F185"}
    /\ ~InPadding(Obj, pc)
    /\ Returns(FinalizeWriteLength(Obj, msglen))
    /\ UNCHANGED <<msglen, seed, written, calls, powVars, intVars>>

HashNext == Reset \/ DoWrite \/ FinalizeBegin \/ FinalizePad \/ FinalizeEnd

HashSpec == HashInit /\ [][HashNext]_vars

\* the numbers of 64-byte blocks an instance has compressed since its
\* last Reset when the caller is first looked at: none, one, and those
\* around the wrap of t[0] at 2^23 blocks and its second wrap
LongStreams == {0, 1, 8388606, 8388607, 8388608, 16777215}

\* the counter t after n compressions of Write: 512 * n, as t[1]:t[0]
CounterAfter(n) ==
    [i \in 0..1 |-> IF i = 0
                    THEN <<(n \div 128) % 65536, (n % 128) * 512>>
                    ELSE W32(n \div 8388608)]

\* an instance that has compressed n blocks since its last Reset and holds
\* no buffered byte; the chain value after n blocks is not computed (h is
\* the IV), the counter and the buffer handling of Write do not read it.
\* The calls counted are those made from here on.
CounterInit ==
    /\ InterruptUnused
    /\ \E g \in Garbage : buf = [i \in 0..63 |-> g]
    /\ h = blake256_iv
    /\ \E n \in LongStreams :
           /\ t = CounterAfter(n)
           /\ ncompress = n
           /\ written = 64 * n
    /\ buflen = 0
    /\ nullt = 0
    /\ pc = "idle"
    /\ msglen = <<>>
    /\ hash = <<>>
    /\ seed \in Seeds
    /\ fincompress = 0
    /\ calls = [write |-> 0, reset |-> 0, final |-> 0, since |-> <<>>]
    /\ chain = <<>>
    /\ params = NoPow
    /\ last = NoPow

CounterNext == Reset \/ DoWrite

CounterSpec == CounterInit /\ [][CounterNext]_vars

-----------------------------------------------------------------------------
(* Hashing a byte sequence with one Write on a new instance                *)

\* the zero-byte Writes of Finalize from position at, until line 185 is
\* reached or the compressions made since c0 reach MaxFinalizeCompress
RECURSIVE RunPadding(_, _, _)
RunPadding(s, at, c0) ==
    IF ~InPadding(s, at) THEN [obj |-> s, pc |-> at]
    ELSE IF s.ncomp - c0 >= MaxFinalizeCompress THEN [obj |-> s, pc |-> "cut"]
    ELSE LET f == FinalizeZero(s, at) IN RunPadding(f.obj, f.pc, c0)

NewObj ==
    [h |-> blake256_iv, t |-> [i \in 0..1 |-> W32(0)], buf |-> [i \in 0..63 |-> 0],
     buflen |-> 0, nullt |-> 0, ncomp |-> 0]

\* CBlake256().Write(data, len).Finalize(hash): the digest, or <<>> when
\* Finalize is cut off
OneShot(data) ==
    LET s0 == Write(NewObj, data)
        f == FinalizeMarker(s0)
        r == RunPadding(f.obj, f.pc, s0.ncomp)
    IN  IF r.pc = "cut" THEN <<>>
        ELSE OutputHash(FinalizeWriteLength(r.obj, FinalizeLength(s0)))

\* the bytes passed to Write since the last Reset
Message == StreamData(seed, 0, written)

\* Finalize(hash) on the object s0: the digest, or <<>> when Finalize is
\* cut off
FinalizeOf(s0) ==
    LET f == FinalizeMarker(s0)
        r == RunPadding(f.obj, f.pc, s0.ncomp)
    IN  IF r.pc = "cut" THEN <<>>
        ELSE OutputHash(FinalizeWriteLength(r.obj, FinalizeLength(s0)))

\* the Writes of lengths lens[k], lens[k + 1], ... of the stream from byte
\* off on, made on the object s
RECURSIVE WriteChunks(_, _, _, _)
WriteChunks(s, lens, k, off) ==
    IF k > Len(lens) THEN s
    ELSE WriteChunks(Write(s, StreamData(seed, off, lens[k])), lens, k + 1,
                     off + lens[k])

\* a newly constructed instance hashing the stream with Writes of the
\* lengths lens
FreshDigest(lens) == FinalizeOf(WriteChunks(NewObj, lens, 1, 0))

-----------------------------------------------------------------------------
(* arith_uint256: a 256-bit unsigned integer, as its 32 bytes, least       *)
(* significant first                                                       *)

Max(S) == CHOOSE x \in S : \A y \in S : y <= x

Zero256 == [i \in 0..31 |-> 0]

\* (bits() + 7) / 8: the number of significant bytes
SizeInBytes(x) ==
    IF x = Zero256 THEN 0 ELSE 1 + Max({i \in 0..31 : x[i] # 0})

\* a > b
Gt256(a, b) ==
    \E i \in 0..31 : a[i] > b[i] /\ \A j \in (i + 1)..31 : a[j] = b[j]

\* the 32 bytes of a sequence, least significant first, as a value
AsArith256(bytes) == [i \in 0..31 |-> bytes[i + 1]]

\* two runs of bytes side by side: the bytes of low before those of high
JoinBytes(low, high) == low \o high

\* the bytes lo..hi of x * b32 for the carry that comes into byte lo, and
\* the carry that leaves byte hi, as <<bytes, carry>>: the loop over the
\* bytes, cut in halves so that each half is computed before the next
MulJoin(low, high) == <<JoinBytes(low[1], high[1]), high[2]>>
RECURSIVE MulBytes(_, _, _, _, _)
RECURSIVE MulHigh(_, _, _, _, _)
MulBytes(x, b32, lo, hi, carry) ==
    IF lo = hi
    THEN << <<(x[lo] * b32 + carry) % 256>>, (x[lo] * b32 + carry) \div 256 >>
    ELSE MulHigh(x, b32, MulBytes(x, b32, lo, (lo + hi) \div 2, carry),
                 (lo + hi) \div 2 + 1, hi)
MulHigh(x, b32, low, lo, hi) ==
    IF low[2] = low[2]
    THEN MulJoin(low, MulBytes(x, b32, lo, hi, low[2]))
    ELSE low

\* x *= b32, modulo 2^256
MulU32(x, b32) == AsArith256(MulBytes(x, b32, 0, 31, 0)[1])

\* the bytes lo..hi of x / d for the remainder that comes into byte hi,
\* and the remainder that leaves byte lo, as <<bytes, remainder>>: long
\* division from the most significant byte down, cut in halves
DivJoin(low, high) == <<JoinBytes(low[1], high[1]), low[2]>>
RECURSIVE DivBytes(_, _, _, _, _)
RECURSIVE DivLow(_, _, _, _, _)
DivBytes(x, d, lo, hi, rem) ==
    IF lo = hi
    THEN << <<(rem * 256 + x[lo]) \div d>>, (rem * 256 + x[lo]) % d >>
    ELSE DivLow(x, d, DivBytes(x, d, (lo + hi) \div 2 + 1, hi, rem),
                lo, (lo + hi) \div 2)
DivLow(x, d, high, lo, hi) ==
    IF high[2] = high[2]
    THEN DivJoin(DivBytes(x, d, lo, hi, high[2]), high)
    ELSE high

\* x /= d, for a divisor below 2^23
DivSmall(x, d) == AsArith256(DivBytes(x, d, 0, 31, 0)[1])

\* SetCompact(nCompact, &fNegative, &fOverflow)
SetCompact(nCompact) ==
    LET nSize == nCompact \div 16777216
        mantissa == nCompact % 8388608
        nWord == IF nSize <= 3 THEN mantissa \div (256 ^ (3 - nSize)) ELSE mantissa
        shift == IF nSize <= 3 THEN 0 ELSE nSize - 3
    IN  [value |-> [i \in 0..31 |->
                        IF i >= shift /\ i < shift + 3
                        THEN (nWord \div (256 ^ (i - shift))) % 256
                        ELSE 0],
         fNegative |-> nWord # 0 /\ (nCompact \div 8388608) % 2 = 1,
         fOverflow |-> nWord # 0 /\ (\/ nSize > 34
                                     \/ (nWord > 255 /\ nSize > 33)
                                     \/ (nWord > 65535 /\ nSize > 32))]

\* GetCompact()
GetCompact(x) ==
    LET nSize == SizeInBytes(x)
        top == IF nSize <= 3
               THEN (x[0] + 256 * x[1] + 65536 * x[2]) * (256 ^ (3 - nSize))
               ELSE x[nSize - 3] + 256 * x[nSize - 2] + 65536 * x[nSize - 1]
    IN  IF top >= 8388608
        THEN (top \div 256) + (nSize + 1) * 16777216
        ELSE top + nSize * 16777216

\* UintToArith256: byte i of the blob is the i-th least significant byte
UintToArith256(blob) == [i \in 0..31 |-> blob[i + 1]]

\* ArithToUint256
ArithToUint256(x) == [k \in 1..32 |-> x[k - 1]]

-----------------------------------------------------------------------------
(* Consensus::Params                                                       *)

\* uint256S("000000ffff...ff"): ~uint256(0) >> 24
MainPowLimit == [k \in 1..32 |-> IF k <= 29 THEN 255 ELSE 0]

\* uint256S("7fffff...ff")
RegtestPowLimit == [k \in 1..32 |-> IF k <= 31 THEN 255 ELSE 127]

Networks ==
    { [name |-> "main", powLimit |-> MainPowLimit,
       nPowTargetSpacing |-> 180, nPowTargetTimespan |-> 3600,
       fPowAllowMinDifficultyBlocks |-> FALSE, fPowNoRetargeting |-> FALSE],
      [name |-> "test", powLimit |-> MainPowLimit,
       nPowTargetSpacing |-> 180, nPowTargetTimespan |-> 3600,
       fPowAllowMinDifficultyBlocks |-> TRUE, fPowNoRetargeting |-> FALSE],
      [name |-> "regtest", powLimit |-> RegtestPowLimit,
       nPowTargetSpacing |-> 180, nPowTargetTimespan |-> 3600,
       fPowAllowMinDifficultyBlocks |-> TRUE, fPowNoRetargeting |-> TRUE] }

\* params.DifficultyAdjustmentInterval()
DifficultyAdjustmentInterval(p) == p.nPowTargetTimespan \div p.nPowTargetSpacing

-----------------------------------------------------------------------------
(* pow.cpp: CheckProofOfWork                                               *)

\* a variant that lets a zero target through; C3 tells it from the code
CheckProofOfWork_ZeroTarget(blob, nBits, p) ==
    LET bn == SetCompact(nBits)
    IN  IF \/ bn.fNegative
           \/ bn.fOverflow
           \/ Gt256(bn.value, UintToArith256(p.powLimit))
        THEN FALSE
        ELSE IF Gt256(UintToArith256(blob), bn.value) THEN FALSE
        ELSE TRUE

CheckProofOfWork(blob, nBits, p) ==
    LET bn == SetCompact(nBits)
    IN  IF \/ bn.fNegative
           \/ bn.value = Zero256
           \/ bn.fOverflow
           \/ Gt256(bn.value, UintToArith256(p.powLimit))
        THEN FALSE
        ELSE IF Gt256(UintToArith256(blob), bn.value) THEN FALSE
        ELSE TRUE

-----------------------------------------------------------------------------
(* pow.cpp: CalculateNextWorkRequired                                      *)

\* a variant whose height threshold is one block later; C5 tells it from
\* the code
ClampedTimespan_Threshold3501(nHeight, nActualTimespan, nTargetTimespan) ==
    LET nMinActualTimespan == (nTargetTimespan * 100) \div 115
        nMinActualTimespan3Pct == (nTargetTimespan * 100) \div 103
        nMaxActualTimespan == nTargetTimespan * 2
        raised == IF nActualTimespan < nTargetTimespan \div 4 /\ nHeight >= 3501
                  THEN nMinActualTimespan3Pct
                  ELSE IF nActualTimespan < nMinActualTimespan /\ nHeight < 3501
                  THEN nMinActualTimespan
                  ELSE nActualTimespan
    IN  IF raised > nMaxActualTimespan THEN nMaxActualTimespan ELSE raised

\* a variant without the upper limit; C6 tells it from the code
ClampedTimespan_NoCeiling(nHeight, nActualTimespan, nTargetTimespan) ==
    LET nMinActualTimespan == (nTargetTimespan * 100) \div 115
        nMinActualTimespan3Pct == (nTargetTimespan * 100) \div 103
    IN  IF nActualTimespan < nTargetTimespan \div 4 /\ nHeight >= 3500
        THEN nMinActualTimespan3Pct
        ELSE IF nActualTimespan < nMinActualTimespan /\ nHeight < 3500
        THEN nMinActualTimespan
        ELSE nActualTimespan

\* the limits on nActualTimespan
ClampedTimespan(nHeight, nActualTimespan, nTargetTimespan) ==
    LET nMinActualTimespan == (nTargetTimespan * 100) \div 115
        nMinActualTimespan3Pct == (nTargetTimespan * 100) \div 103
        nMaxActualTimespan == nTargetTimespan * 2
        raised == IF nActualTimespan < nTargetTimespan \div 4 /\ nHeight >= 3500
                  THEN nMinActualTimespan3Pct
                  ELSE IF nActualTimespan < nMinActualTimespan /\ nHeight < 3500
                  THEN nMinActualTimespan
                  ELSE nActualTimespan
    IN  IF raised > nMaxActualTimespan THEN nMaxActualTimespan ELSE raised

\* a variant that does not limit the new target; C12 tells it from the code
Retarget_NoLimit(nBits, nActualTimespan, p) ==
    GetCompact(DivSmall(MulU32(SetCompact(nBits).value, nActualTimespan),
                        p.nPowTargetTimespan))

\* bnNew *= nActualTimespan; bnNew /= nTargetTimespan; limit; GetCompact.
\* The clamped timespan is positive and below 2^32, so its conversion to
\* the uint32_t operand of *= keeps its value.
Retarget(nBits, nActualTimespan, p) ==
    LET bnNew == DivSmall(MulU32(SetCompact(nBits).value, nActualTimespan),
                          p.nPowTargetTimespan)
    IN  IF Gt256(bnNew, UintToArith256(p.powLimit))
        THEN GetCompact(UintToArith256(p.powLimit))
        ELSE GetCompact(bnNew)

CalculateNextWorkRequired(pindexLast, nFirstBlockTime, p) ==
    IF p.fPowNoRetargeting
    THEN pindexLast.nBits
    ELSE Retarget(pindexLast.nBits,
                  ClampedTimespan(pindexLast.nHeight,
                                  pindexLast.nTime - nFirstBlockTime,
                                  p.nPowTargetTimespan),
                  p)

-----------------------------------------------------------------------------
(* pow.cpp: GetNextWorkRequired.  The block index is the sequence of block *)
(* summaries from its lowest block to the tip; pprev of blocks[i] is       *)
(* blocks[i - 1], and blocks[1] has none.                                  *)

\* pindexLast->GetAncestor(nHeight)
GetAncestor(blocks, nHeight) == blocks[nHeight - blocks[1].nHeight + 1]

\* a variant that never leaves the tip; C11 tells it from the code
WalkBack_StopsAtTip(blocks, i, interval, nProofOfWorkLimit) == i

\* a variant that takes the block before the tip; C26 tells it from the
\* code
WalkBack_TipParent(blocks, i, interval, nProofOfWorkLimit) ==
    IF i > 1 THEN i - 1 ELSE i

\* the last non-special-min-difficulty-rules-block, as an index
RECURSIVE WalkBack(_, _, _, _)
WalkBack(blocks, i, interval, nProofOfWorkLimit) ==
    IF /\ i > 1
       /\ blocks[i].nHeight % interval # 0
       /\ blocks[i].nBits = nProofOfWorkLimit
    THEN WalkBack(blocks, i - 1, interval, nProofOfWorkLimit)
    ELSE i

\* a variant that applies the min-difficulty rule on every network; C8
\* tells it from the code
GetNextWorkRequired_AlwaysMinDifficulty(blocks, nBlockTime, p) ==
    LET pindexLast == blocks[Len(blocks)]
        nProofOfWorkLimit == GetCompact(UintToArith256(p.powLimit))
        interval == DifficultyAdjustmentInterval(p)
    IN  IF (pindexLast.nHeight + 1) % interval # 0
        THEN IF TRUE
             THEN IF nBlockTime > pindexLast.nTime + p.nPowTargetSpacing * 2
                  THEN nProofOfWorkLimit
                  ELSE blocks[WalkBack(blocks, Len(blocks), interval,
                                       nProofOfWorkLimit)].nBits
             ELSE pindexLast.nBits
        ELSE CalculateNextWorkRequired(
                 pindexLast,
                 GetAncestor(blocks, pindexLast.nHeight - (interval - 1)).nTime,
                 p)

\* a variant whose window starts one block later; C9 tells it from the code
GetNextWorkRequired_ShortWindow(blocks, nBlockTime, p) ==
    LET pindexLast == blocks[Len(blocks)]
        nProofOfWorkLimit == GetCompact(UintToArith256(p.powLimit))
        interval == DifficultyAdjustmentInterval(p)
    IN  IF (pindexLast.nHeight + 1) % interval # 0
        THEN IF p.fPowAllowMinDifficultyBlocks
             THEN IF nBlockTime > pindexLast.nTime + p.nPowTargetSpacing * 2
                  THEN nProofOfWorkLimit
                  ELSE blocks[WalkBack(blocks, Len(blocks), interval,
                                       nProofOfWorkLimit)].nBits
             ELSE pindexLast.nBits
        ELSE CalculateNextWorkRequired(
                 pindexLast,
                 GetAncestor(blocks, pindexLast.nHeight - (interval - 2)).nTime,
                 p)

\* a variant that counts a gap of exactly twice the spacing as late; C10
\* tells it from the code
GetNextWorkRequired_LateInclusive(blocks, nBlockTime, p) ==
    LET pindexLast == blocks[Len(blocks)]
        nProofOfWorkLimit == GetCompact(UintToArith256(p.powLimit))
        interval == DifficultyAdjustmentInterval(p)
    IN  IF (pindexLast.nHeight + 1) % interval # 0
        THEN IF p.fPowAllowMinDifficultyBlocks
             THEN IF nBlockTime >= pindexLast.nTime + p.nPowTargetSpacing * 2
                  THEN nProofOfWorkLimit
                  ELSE blocks[WalkBack(blocks, Len(blocks), interval,
                                       nProofOfWorkLimit)].nBits
             ELSE pindexLast.nBits
        ELSE CalculateNextWorkRequired(
                 pindexLast,
                 GetAncestor(blocks, pindexLast.nHeight - (interval - 1)).nTime,
                 p)

\* a variant that goes back a whole interval; C27 tells it from the code
nHeightFirst_WholeInterval(pindexLast, p) ==
    pindexLast.nHeight - DifficultyAdjustmentInterval(p)

\* int nHeightFirst = pindexLast->nHeight - (params.DifficultyAdjustmentInterval()-1)
nHeightFirst(pindexLast, p) ==
    pindexLast.nHeight - (DifficultyAdjustmentInterval(p) - 1)

GetNextWorkRequired(blocks, nBlockTime, p) ==
    LET pindexLast == blocks[Len(blocks)]
        nProofOfWorkLimit == GetCompact(UintToArith256(p.powLimit))
        interval == DifficultyAdjustmentInterval(p)
    IN  IF (pindexLast.nHeight + 1) % interval # 0
        THEN IF p.fPowAllowMinDifficultyBlocks
             THEN IF nBlockTime > pindexLast.nTime + p.nPowTargetSpacing * 2
                  THEN nProofOfWorkLimit
                  ELSE blocks[WalkBack(blocks, Len(blocks), interval,
                                       nProofOfWorkLimit)].nBits
             ELSE pindexLast.nBits
        ELSE CalculateNextWorkRequired(
                 pindexLast,
                 GetAncestor(blocks, nHeightFirst(pindexLast, p)).nTime,
                 p)

-----------------------------------------------------------------------------
(* The callers of the difficulty controller                                *)

\* the hash engine, unused
HashUnused ==
    /\ buf = [i \in 0..63 |-> 0]
    /\ h = blake256_iv
    /\ t = [i \in 0..1 |-> W32(0)]
    /\ buflen = 0
    /\ nullt = 0
    /\ pc = "idle"
    /\ msglen = <<>>
    /\ hash = <<>>
    /\ seed = 0
    /\ written = 0
    /\ ncompress = 0
    /\ fincompress = 0
    /\ calls = [write |-> 0, reset |-> 0, final |-> 0, since |-> <<>>]

\* x + 1 and x - 1, modulo 2^256
Add1(x) == [i \in 0..31 |-> IF \A j \in 0..(i - 1) : x[j] = 255
                            THEN (x[i] + 1) % 256 ELSE x[i]]

Sub1(x) == [i \in 0..31 |-> IF \A j \in 0..(i - 1) : x[j] = 0
                            THEN (x[i] + 255) % 256 ELSE x[i]]

\* compact targets handed to CheckProofOfWork: well formed ones
\* (0x1e00ffff, 0x1d00ffff, 0x1c0fffff, 0x03000001, 0x02008000, 0x207fffff,
\* 0x1f00ffff), negative ones (0x1d80ffff, 0x04923456), zero ones
\* (0x1d000000, 0x01003456, 0x01800000) and overflowing ones (0x23000001,
\* 0x2200ffff, 0x21010000), and 0x2100ffff, which fits 256 bits
CheckBits ==
    { 503382015, 486604799, 470810623, 50331649, 33587200, 545259519,
      520159231, 494993407, 76690518, 486539264, 16790614, 25165824,
      587202561, 570490879, 553713664, 553713663 }

HashKinds == {"zero", "below", "target", "above", "max"}

\* the hash of each kind for the target nBits expands to
HashOfKind(kind, nBits) ==
    LET bnTarget == SetCompact(nBits).value
    IN  ArithToUint256(CASE kind = "zero" -> Zero256
                         [] kind = "below" -> Sub1(bnTarget)
                         [] kind = "target" -> bnTarget
                         [] kind = "above" -> Add1(bnTarget)
                         [] OTHER -> [i \in 0..31 |-> 255])

CheckInit ==
    /\ InterruptUnused
    /\ HashUnused
    /\ chain = <<>>
    /\ params \in Networks
    /\ \E nBits \in CheckBits, kind \in HashKinds :
           last = [op |-> "CheckProofOfWork", hash |-> HashOfKind(kind, nBits),
                   kind |-> kind, nBits |-> nBits, done |-> FALSE,
                   ret |-> FALSE]

\* CheckProofOfWork(hash, nBits, params)
DoCheckProofOfWork ==
    /\ last.op = "CheckProofOfWork"
    /\ ~last.done
    /\ last' = [last EXCEPT !.done = TRUE,
                            !.ret = CheckProofOfWork(last.hash, last.nBits, params)]
    /\ UNCHANGED <<hashVars, chain, params, intVars>>

CheckNext == DoCheckProofOfWork

CheckSpec == CheckInit /\ [][CheckNext]_vars

\* heights of the tip handed to CalculateNextWorkRequired
TipHeights == {19, 3479, 3499, 3500, 3519}

\* compact targets of the tip: 0x1e00ffff, 0x1d00ffff, 0x1c0fffff,
\* 0x1b0404cb, 0x03000001
TipBits == {503382015, 486604799, 470810623, 453248203, 50331649}

\* tip.time - nFirstBlockTime
RawTimespans ==
    { -3600, -1, 0, 1, 450, 899, 900, 901, 3129, 3130, 3131, 3420, 3494,
      3495, 3496, 3600, 3601, 7199, 7200, 7201, 36000 }

CalcInit ==
    /\ InterruptUnused
    /\ HashUnused
    /\ chain = <<>>
    /\ params \in Networks
    /\ \E nHeight \in TipHeights, nBits \in TipBits, raw \in RawTimespans :
           last = [op |-> "CalculateNextWorkRequired",
                   pindexLast |-> [nHeight |-> nHeight, nTime |-> 1000000 + raw,
                                   nBits |-> nBits],
                   nFirstBlockTime |-> 1000000, done |-> FALSE,
                   clamped |-> 0, ret |-> 0]

\* CalculateNextWorkRequired(pindexLast, nFirstBlockTime, params); clamped
\* is the value of the "nActualTimespan clamped" log line, 0 when the call
\* returns before it
DoCalculateNextWorkRequired ==
    /\ last.op = "CalculateNextWorkRequired"
    /\ ~last.done
    /\ last' = [last EXCEPT
                   !.done = TRUE,
                   !.clamped = IF params.fPowNoRetargeting
                               THEN 0
                               ELSE ClampedTimespan(last.pindexLast.nHeight,
                                                    last.pindexLast.nTime - last.nFirstBlockTime,
                                                    params.nPowTargetTimespan),
                   !.ret = CalculateNextWorkRequired(last.pindexLast,
                                                     last.nFirstBlockTime, params)]
    /\ UNCHANGED <<hashVars, chain, params, intVars>>

CalcNext == DoCalculateNextWorkRequired

CalcSpec == CalcInit /\ [][CalcNext]_vars

MaxBlocks == 24

StartHeights == {0, 3480, 3500}

\* seconds between a block and its parent
Delays == {180, 360, 361}

\* positions in a retarget interval at which a block may be off schedule
OffSchedule == {0, 1, 2, 19}

\* compact targets of the lowest block: the power limit, 0x1d00ffff and
\* the lowest one, 0x03000001
StartBits(p) == {GetCompact(UintToArith256(p.powLimit)), 486604799, 50331649}

ChainInit ==
    /\ InterruptUnused
    /\ HashUnused
    /\ params \in Networks
    /\ last = NoPow
    /\ \E nHeight \in StartHeights, nBits \in StartBits(params) :
           chain = << [nHeight |-> nHeight, nTime |-> 1000000, nBits |-> nBits] >>

\* a block is built on the tip: its nBits is GetNextWorkRequired of its
\* parent and its own time
ConnectBlock ==
    /\ chain # <<>>
    /\ Len(chain) < MaxBlocks
    /\ \E delay \in Delays :
           LET pindexLast == chain[Len(chain)]
               nTime == pindexLast.nTime + delay
           IN  /\ (delay = 180 \/ (pindexLast.nHeight + 1) % DifficultyAdjustmentInterval(params) \in OffSchedule)
               /\ chain' = Append(chain,
                                  [nHeight |-> pindexLast.nHeight + 1,
                                   nTime |-> nTime,
                                   nBits |-> GetNextWorkRequired(chain, nTime, params)])
    /\ UNCHANGED <<hashVars, params, last, intVars>>

ChainNext == ConnectBlock

ChainSpec == ChainInit /\ [][ChainNext]_vars

-----------------------------------------------------------------------------
(* threadinterrupt.cpp: CThreadInterrupt and the threads that call it      *)

\* the class has no constructor: flag is not initialised
InterruptInit ==
    /\ HashUnused
    /\ chain = <<>>
    /\ params = NoPow
    /\ last = NoPow
    /\ flag \in BOOLEAN
    /\ mut = "none"
    /\ cond = {}
    /\ tpc = [th \in Threads |-> "idle"]
    /\ result = [th \in Threads |-> "none"]
    /\ obs = NoCalls

\* thread th is at position to, everything else of the threads as before
Goes(th, to) == tpc' = [tpc EXCEPT ![th] = to]

\* operator bool(): flag.load()
LoadFlag(th) ==
    /\ th \in Sleepers
    /\ tpc[th] = "idle"
    /\ result' = [result EXCEPT ![th] = IF flag THEN "true" ELSE "false"]
    /\ obs' = [obs EXCEPT !.seen[th] = "none"]
    /\ UNCHANGED <<flag, mut, cond, tpc, hashVars, powVars>>

\* reset() is called
CallReset(th) ==
    /\ th \in Resetters
    /\ tpc[th] = "idle"
    /\ Goes(th, "rs_store")
    /\ obs' = [obs EXCEPT !.returned = FALSE, !.clean = FALSE, !.sticky = FALSE,
                          !.quiet = \A i \in Interrupters : tpc[i] = "idle",
                          !.armed = [x \in Threads |-> FALSE]]
    /\ UNCHANGED <<flag, mut, cond, result, hashVars, powVars>>

\* a variant that returns without the store; C18 tells it from the code
ResetStore_NoStore(th) ==
    /\ tpc[th] = "rs_store"
    /\ Goes(th, "idle")
    /\ obs' = [obs EXCEPT !.cleared = obs.quiet]
    /\ UNCHANGED <<flag, mut, cond, result, hashVars, powVars>>

\* reset(): flag.store(false), and return
ResetStore(th) ==
    /\ tpc[th] = "rs_store"
    /\ flag' = FALSE
    /\ Goes(th, "idle")
    /\ obs' = [obs EXCEPT !.cleared = obs.quiet]
    /\ UNCHANGED <<mut, cond, result, hashVars, powVars>>

\* operator()() is called
CallInterrupt(th) ==
    /\ th \in Interrupters
    /\ tpc[th] = "idle"
    /\ Goes(th, "op_lock")
    /\ obs' = [obs EXCEPT !.clean = \A r \in Resetters : tpc[r] = "idle",
                          !.quiet = FALSE, !.cleared = FALSE, !.called = TRUE]
    /\ UNCHANGED <<flag, mut, cond, result, hashVars, powVars>>

\* operator()(): std::unique_lock<std::mutex> lock(mut)
OpLock(th) ==
    /\ tpc[th] = "op_lock"
    /\ mut = "none"
    /\ mut' = th
    /\ Goes(th, "op_store")
    /\ UNCHANGED <<flag, cond, result, obs, hashVars, powVars>>

\* operator()(): flag.store(true)
OpStore(th) ==
    /\ tpc[th] = "op_store"
    /\ flag' = TRUE
    /\ Goes(th, "op_unlock")
    /\ UNCHANGED <<mut, cond, result, obs, hashVars, powVars>>

\* operator()(): the lock goes out of scope
OpUnlock(th) ==
    /\ tpc[th] = "op_unlock"
    /\ mut' = "none"
    /\ Goes(th, "op_notify")
    /\ UNCHANGED <<flag, cond, result, obs, hashVars, powVars>>

\* a variant that wakes one of the blocked threads only; C19 tells it from
\* the code
OpNotify_One(th) ==
    /\ tpc[th] = "op_notify"
    /\ \E w \in (IF cond = {} THEN {{}} ELSE {{x} : x \in cond}) :
           /\ cond' = cond \ w
           /\ tpc' = [x \in Threads |-> IF x = th THEN "idle"
                                        ELSE IF x \in w THEN "sf_lock"
                                        ELSE tpc[x]]
    /\ obs' = [obs EXCEPT !.returned = TRUE, !.sticky = obs.clean,
                          !.woken = cond \ cond']
    /\ UNCHANGED <<flag, mut, result, hashVars, powVars>>

\* operator()(): cond.notify_all(), and return; the woken threads go for
\* the mutex
OpNotify(th) ==
    /\ tpc[th] = "op_notify"
    /\ cond' = {}
    /\ tpc' = [x \in Threads |-> IF x = th THEN "idle"
                                 ELSE IF x \in cond THEN "sf_lock"
                                 ELSE tpc[x]]
    /\ obs' = [obs EXCEPT !.returned = TRUE, !.sticky = obs.clean,
                          !.woken = cond]
    /\ UNCHANGED <<flag, mut, result, hashVars, powVars>>

\* sleep_for(rel_time) is called
CallSleepFor(th) ==
    /\ th \in Sleepers
    /\ tpc[th] = "idle"
    /\ Goes(th, "sf_lock")
    /\ result' = [result EXCEPT ![th] = "none"]
    /\ obs' = [obs EXCEPT !.woken = @ \ {th}, !.slept[th] = "no",
                          !.armed[th] = obs.sticky, !.seen[th] = "none"]
    /\ UNCHANGED <<flag, mut, cond, hashVars, powVars>>

\* sleep_for: std::unique_lock<std::mutex> lock(mut), and the lock taken
\* again by a thread that was woken inside cond.wait_for
SfLock(th) ==
    /\ tpc[th] = "sf_lock"
    /\ mut = "none"
    /\ mut' = th
    /\ Goes(th, "sf_pred")
    /\ UNCHANGED <<flag, cond, result, obs, hashVars, powVars>>

\* cond.wait_for: the predicate is read with the mutex held; if it is true
\* wait_for is about to return true, else the thread releases the mutex
\* and blocks on cond in one step
SfPred(th) ==
    /\ tpc[th] = "sf_pred"
    /\ IF flag
       THEN /\ Goes(th, "sf_ret_false")
            /\ obs' = [obs EXCEPT !.pred[th] = TRUE]
            /\ UNCHANGED <<mut, cond>>
       ELSE /\ Goes(th, "sf_wait")
            /\ mut' = "none"
            /\ cond' = cond \cup {th}
            /\ obs' = [obs EXCEPT !.pred[th] = FALSE, !.slept[th] = "waited"]
    /\ UNCHANGED <<flag, result, hashVars, powVars>>

\* cond.wait_for: a spurious wake-up
SpuriousWake(th) ==
    /\ tpc[th] = "sf_wait"
    /\ th \in cond
    /\ cond' = cond \ {th}
    /\ Goes(th, "sf_lock")
    /\ UNCHANGED <<flag, mut, result, obs, hashVars, powVars>>

\* cond.wait_for: rel_time has passed
Timeout(th) ==
    /\ tpc[th] = "sf_wait"
    /\ th \in cond
    /\ cond' = cond \ {th}
    /\ Goes(th, "sf_timedout")
    /\ obs' = [obs EXCEPT !.slept[th] = "timedout"]
    /\ UNCHANGED <<flag, mut, result, hashVars, powVars>>

\* cond.wait_for after the timeout: with the mutex taken again it reads
\* the predicate, which it is about to return
SfTimedOut(th) ==
    /\ tpc[th] = "sf_timedout"
    /\ mut = "none"
    /\ mut' = th
    /\ Goes(th, IF flag THEN "sf_ret_false" ELSE "sf_ret_true")
    /\ obs' = [obs EXCEPT !.pred[th] = flag]
    /\ UNCHANGED <<flag, cond, result, hashVars, powVars>>

\* a variant that returns what wait_for returned; C28 tells it from the
\* code
SfReturn_NotNegated(th) ==
    /\ tpc[th] \in {"sf_ret_false", "sf_ret_true"}
    /\ mut' = "none"
    /\ Goes(th, "idle")
    /\ result' = [result EXCEPT ![th] = IF tpc[th] = "sf_ret_false"
                                        THEN "true" ELSE "false"]
    /\ obs' = [obs EXCEPT !.seen[th] = IF flag THEN "set" ELSE "clear"]
    /\ UNCHANGED <<flag, cond, hashVars, powVars>>

\* sleep_for returns the negation of what wait_for returned, and the lock
\* goes out of scope
SfReturn(th) ==
    /\ tpc[th] \in {"sf_ret_false", "sf_ret_true"}
    /\ mut' = "none"
    /\ Goes(th, "idle")
    /\ result' = [result EXCEPT ![th] = IF tpc[th] = "sf_ret_false"
                                        THEN "false" ELSE "true"]
    /\ obs' = [obs EXCEPT !.seen[th] = IF flag THEN "set" ELSE "clear"]
    /\ UNCHANGED <<flag, cond, hashVars, powVars>>

InterruptNext ==
    \E th \in Threads :
        \/ LoadFlag(th)
        \/ CallReset(th)
        \/ ResetStore(th)
        \/ CallInterrupt(th)
        \/ OpLock(th)
        \/ OpStore(th)
        \/ OpUnlock(th)
        \/ OpNotify(th)
        \/ CallSleepFor(th)
        \/ SfLock(th)
        \/ SfPred(th)
        \/ SpuriousWake(th)
        \/ Timeout(th)
        \/ SfTimedOut(th)
        \/ SfReturn(th)

InterruptSpec ==
    /\ InterruptInit
    /\ [][InterruptNext]_vars

\* sleepers whose timeouts are far away and one interrupter, no reset()
WakeNext ==
    \E th \in Threads :
        \/ CallInterrupt(th)
        \/ OpLock(th)
        \/ OpStore(th)
        \/ OpUnlock(th)
        \/ OpNotify(th)
        \/ CallSleepFor(th)
        \/ SfLock(th)
        \/ SfPred(th)
        \/ SfReturn(th)
        \/ SpuriousWake(th)

\* a thread inside a member function goes on running, and a thread that
\* asks for the mutex again and again gets it; nothing makes a thread call
\* a member function, and nothing makes a spurious wake-up happen
WakeFairness ==
    \A th \in Threads :
        /\ SF_vars(OpLock(th))
        /\ WF_vars(OpStore(th))
        /\ WF_vars(OpUnlock(th))
        /\ WF_vars(OpNotify(th))
        /\ SF_vars(SfLock(th))
        /\ WF_vars(SfPred(th))
        /\ WF_vars(SfReturn(th))

WakeSpec ==
    /\ InterruptInit
    /\ [][WakeNext]_vars
    /\ WakeFairness

-----------------------------------------------------------------------------
(* C1: chunking independence. Whenever Finalize has produced the digest of *)
(* a message written in chunks since the last Reset, and hashing the same  *)
(* message with a single Write produces a digest, the two digests are      *)
(* equal.                                                                  *)
C1_ChunkingIndependence ==
    (pc = "done" /\ calls.final = 1 /\ calls.since # <<>>
     /\ OneShot(Message) # <<>>) => hash = OneShot(Message)

(* C2: Finalize terminates. The padding loops of Finalize test buflen      *)
(* only, and each iteration is Write of one zero byte, so an iteration     *)
(* that returns to the same loop with the same buflen repeats for ever:    *)
(* termination requires that every iteration changes buflen.               *)
C2_FinalizeTerminates ==
    [][(pc \in {"F171", "F176", "F182"} /\ pc' = pc) => buflen' # buflen]_vars

-----------------------------------------------------------------------------
(* Properties of the difficulty controller                                 *)

RECURSIVE BitLen(_)
BitLen(n) == IF n = 0 THEN 0 ELSE 1 + BitLen(n \div 2)

\* the mantissa a compact value contributes, and whether its sign bit is set
Mantissa(nBits) ==
    IF nBits \div 16777216 <= 3
    THEN (nBits % 8388608) \div (256 ^ (3 - nBits \div 16777216))
    ELSE nBits % 8388608

SignBit(nBits) == (nBits \div 8388608) % 2 = 1

\* the number of bits of the integer a compact value stands for
TargetBitLen(nBits) ==
    IF nBits \div 16777216 <= 3
    THEN BitLen(Mantissa(nBits))
    ELSE 8 * (nBits \div 16777216 - 3) + BitLen(Mantissa(nBits))

\* powLimit is 2^LimitBitLen - 1, and LimitCompact is its compact encoding
LimitBitLen(p) == IF p.name = "regtest" THEN 255 ELSE 232

LimitCompact(p) == IF p.name = "regtest" THEN 545259519 ELSE 503382015

\* positive, non-zero, within 256 bits and within the power limit
WellFormed(nBits, p) ==
    /\ Mantissa(nBits) # 0
    /\ ~SignBit(nBits)
    /\ TargetBitLen(nBits) <= 256
    /\ TargetBitLen(nBits) <= LimitBitLen(p)

Checked == last.op = "CheckProofOfWork" /\ last.done

Calculated == last.op = "CalculateNextWorkRequired" /\ last.done

RawTimespan == last.pindexLast.nTime - last.nFirstBlockTime

(* C3: CheckProofOfWork returns true exactly when the compact target is    *)
(* well formed (positive, non-zero, not overflowing, at most powLimit) and *)
(* the hash, read as a 256-bit integer, is at most the target: a malformed *)
(* target rejects every hash, hash 0 included, and a well formed target    *)
(* accepts 0, target - 1 and target and rejects target + 1 and 2^256 - 1.  *)
C3_CheckProofOfWork ==
    Checked =>
        (last.ret <=> (/\ WellFormed(last.nBits, params)
                       /\ last.kind \in {"zero", "below", "target"}))

C3_Witness ==
    /\ Checked
    /\ params.name = "main"
    /\ last.nBits = 486604799
    /\ last.kind = "target"
    /\ last.hash[27] = 255
    /\ last.ret

(* C4: the timespan by which CalculateNextWorkRequired scales the target   *)
(* is at least targetTimespan*100/115 below height 3500 and at least       *)
(* targetTimespan*100/103 from height 3500 on, whatever the raw timespan.  *)
C4_IncreaseCap ==
    (Calculated /\ ~params.fPowNoRetargeting) =>
        last.clamped >= IF last.pindexLast.nHeight < 3500
                        THEN (params.nPowTargetTimespan * 100) \div 115
                        ELSE (params.nPowTargetTimespan * 100) \div 103

C6_DecreaseCap ==
    Calculated =>
        /\ ~params.fPowNoRetargeting =>
               /\ last.clamped <= params.nPowTargetTimespan * 2
               /\ RawTimespan = params.nPowTargetTimespan * 10
                      => last.clamped = params.nPowTargetTimespan * 2
        /\ ~Gt256(SetCompact(last.ret).value,
                  MulU32(SetCompact(last.pindexLast.nBits).value, 2))

C6_Witness ==
    /\ Calculated
    /\ ~params.fPowNoRetargeting
    /\ RawTimespan = 36000
    /\ last.clamped = 7200
    /\ last.pindexLast.nBits = 470810623
    /\ last.ret = 471859198

\* the blocks of the index at a retarget boundary, and the others
Boundary(i) == chain[i].nHeight % DifficultyAdjustmentInterval(params) = 0

Built == 2..Len(chain)

\* the tip chain[i] and its 19 preceding ancestors are spaced exactly
\* targetTimespan/20 apart
OnTime(i) ==
    /\ i >= 20
    /\ \A j \in (i - 18)..i :
           chain[j].nTime - chain[j - 1].nTime = params.nPowTargetTimespan \div 20

(* C7: at a retarget boundary whose 20-block window is spaced exactly      *)
(* targetTimespan/20 apart, the nBits returned for the next block decodes  *)
(* to the same target as the tip's nBits.                                  *)
C7_OnTimeRetargetNoOp ==
    \A i \in Built :
        (Boundary(i) /\ OnTime(i - 1)) =>
            SetCompact(chain[i].nBits).value = SetCompact(chain[i - 1].nBits).value

(* C8: when min-difficulty blocks are not allowed, a block at a height not *)
(* divisible by the retarget interval has the nBits of its parent,         *)
(* whatever the timestamps are.                                            *)
C8_ChangesOnlyAtBoundaries ==
    ~params.fPowAllowMinDifficultyBlocks =>
        \A i \in Built : ~Boundary(i) => chain[i].nBits = chain[i - 1].nBits

C8_Witness ==
    /\ ~params.fPowAllowMinDifficultyBlocks
    /\ Len(chain) >= 23
    /\ chain[21].nBits # chain[20].nBits
    /\ chain[22].nTime - chain[21].nTime = 361
    /\ chain[23].nBits = chain[21].nBits

(* C9: at a retarget boundary GetNextWorkRequired returns                  *)
(* CalculateNextWorkRequired(tip, t, params), t the time of the tip's      *)
(* ancestor at height tip.height - 19, whatever the candidate's time and   *)
(* the min-difficulty flag are.  Stated of the block connected last: every *)
(* block of the index was connected last in an earlier state.              *)
C9_BoundaryUsesCalculate ==
    (Len(chain) >= 2 /\ Boundary(Len(chain))) =>
        LET i == Len(chain)
        IN  /\ chain[i].nBits =
                   CalculateNextWorkRequired(chain[i - 1], chain[i - 20].nTime, params)
            /\ \A delay \in Delays, allow \in BOOLEAN :
                   GetNextWorkRequired(
                       SubSeq(chain, 1, i - 1), chain[i - 1].nTime + delay,
                       [params EXCEPT !.fPowAllowMinDifficultyBlocks = allow])
                   = chain[i].nBits

C9_Witness ==
    /\ params.name = "test"
    /\ Len(chain) = 21
    /\ Boundary(21)
    /\ chain[21].nTime - chain[20].nTime = 361
    /\ chain[20].nTime - chain[19].nTime = 360
    /\ chain[21].nBits # chain[20].nBits

(* C10: when the next height is not a boundary and min-difficulty blocks   *)
(* are allowed, a candidate more than 2*targetSpacing after the tip gets   *)
(* the compact powLimit whatever the tip's nBits is; a gap of exactly      *)
(* 2*targetSpacing does not qualify, so a tip that is no min-difficulty    *)
(* block hands down its own nBits.                                         *)
C10_MinDifficultyRule ==
    params.fPowAllowMinDifficultyBlocks =>
        \A i \in Built :
            ~Boundary(i) =>
                /\ chain[i].nTime > chain[i - 1].nTime + 2 * params.nPowTargetSpacing
                       => chain[i].nBits = LimitCompact(params)
                /\ (/\ chain[i].nTime = chain[i - 1].nTime + 2 * params.nPowTargetSpacing
                    /\ chain[i - 1].nBits # LimitCompact(params))
                       => chain[i].nBits = chain[i - 1].nBits

C10_Witness ==
    /\ params.name = "test"
    /\ Len(chain) >= 3
    /\ chain[2].nBits = 486604799
    /\ chain[2].nTime - chain[1].nTime = 360
    /\ chain[3].nTime - chain[2].nTime = 361
    /\ chain[3].nBits = 503382015

\* the nearest block at or below chain[j], following parent links, that has
\* no parent, or is the first of its retarget interval, or is no
\* min-difficulty block
Nearest(j) ==
    Max({k \in 1..j : \/ k = 1
                      \/ Boundary(k)
                      \/ chain[k].nBits # LimitCompact(params)})

\* the candidate chain[i] is at most 2*targetSpacing after its parent
NotLate(i) == chain[i].nTime <= chain[i - 1].nTime + 2 * params.nPowTargetSpacing

(* C11: when the next height is not a boundary, min-difficulty blocks are  *)
(* allowed and the candidate is not late, GetNextWorkRequired returns the  *)
(* nBits of the nearest block, from the tip down the parent links, that    *)
(* has no parent, or whose height is a multiple of the interval, or whose  *)
(* nBits is not the compact powLimit; the walk ends there, at or above the *)
(* first block of the tip's retarget interval.                             *)
C11_WalkBack ==
    params.fPowAllowMinDifficultyBlocks =>
        \A i \in Built :
            (~Boundary(i) /\ NotLate(i)) =>
                /\ chain[i].nBits = chain[Nearest(i - 1)].nBits
                /\ WalkBack(SubSeq(chain, 1, i - 1), i - 1,
                            DifficultyAdjustmentInterval(params),
                            LimitCompact(params)) = Nearest(i - 1)
                /\ chain[Nearest(i - 1)].nHeight >=
                       chain[i - 1].nHeight
                       - (chain[i - 1].nHeight % DifficultyAdjustmentInterval(params))

C11_Witness ==
    /\ params.name = "test"
    /\ Len(chain) >= 4
    /\ chain[1].nBits = 486604799
    /\ chain[2].nBits = 503382015
    /\ chain[3].nBits = 503382015
    /\ chain[4].nTime - chain[3].nTime = 180
    /\ chain[4].nBits = 486604799

(* C12: with retargeting enabled, the nBits CalculateNextWorkRequired      *)
(* returns for a tip whose nBits decodes to a target <= powLimit decodes   *)
(* to a target <= powLimit, whatever the raw timespan and the height are.  *)
C12_ResultWithinLimit ==
    (/\ Calculated
     /\ ~params.fPowNoRetargeting
     /\ WellFormed(last.pindexLast.nBits, params)) =>
        /\ ~SetCompact(last.ret).fNegative
        /\ ~SetCompact(last.ret).fOverflow
        /\ ~Gt256(SetCompact(last.ret).value, UintToArith256(params.powLimit))
        /\ (last.ret = 0 \/ TargetBitLen(last.ret) <= LimitBitLen(params))

C12_Witness ==
    /\ Calculated
    /\ ~params.fPowNoRetargeting
    /\ last.pindexLast.nBits = 503382015
    /\ RawTimespan = 7200
    /\ last.ret = 503382015

(* C13: if the tip's nBits expands to a positive, non-zero, non-overflowing *)
(* target <= powLimit, so does the nBits GetNextWorkRequired returns for   *)
(* the next block, after any number of retargets.                          *)
C13_ValidityPreserved ==
    \A i \in Built :
        WellFormed(chain[i - 1].nBits, params) => WellFormed(chain[i].nBits, params)

-----------------------------------------------------------------------------
(* Properties of the hash engine                                           *)

(* C14: whatever Write and Finalize calls were made on the instance        *)
(* before, Reset followed by Writes and Finalize gives the digest a newly  *)
(* constructed instance gives for the same Writes.                         *)
C14_ResetIdempotence ==
    (pc = "done" /\ calls.reset > 0 /\ calls.final = 1
     /\ FreshDigest(calls.since) # <<>>) =>
        hash = FreshDigest(calls.since)

C14_Witness ==
    /\ pc = "done"
    /\ calls.reset = 1
    /\ calls.write = 2
    /\ calls.since = <<55>>
    /\ hash = FreshDigest(<<55>>)

\* the instance was constructed or Reset and not used since
JustReset == pc = "idle" /\ calls.since = <<>> /\ calls.final = 0

(* C15, as the code has it: after construction and after Reset the chain   *)
(* values h[0..7] are the eight IV constants, t[0] and t[1] are 0, and the *)
(* buffer fill count and the null-t flag are 0; the bytes of the pending   *)
(* buffer are left as they were.                                           *)
C15_ResetPostcondition ==
    JustReset =>
        /\ h = blake256_iv
        /\ t = [i \in 0..1 |-> W32(0)]
        /\ buflen = 0
        /\ nullt = 0

\* after a Write of 63 bytes and a Reset the bytes are still in buf
C15_Witness ==
    /\ JustReset
    /\ calls.reset = 1
    /\ calls.write = 1
    /\ buf[0] = StreamByte(seed, 0)
    /\ buf[62] = StreamByte(seed, 62)
    /\ buflen = 0
    /\ h = blake256_iv

(* C15, as stated: after construction and after Reset the chain values are *)
(* the IV constants, both counter words, the buffer fill count and the     *)
(* null-t flag are 0, and the 64-byte pending buffer is zeroed.            *)
C15_ResetZeroesBuffer ==
    JustReset =>
        /\ h = blake256_iv
        /\ t = [i \in 0..1 |-> W32(0)]
        /\ buflen = 0
        /\ nullt = 0
        /\ buf = [i \in 0..63 |-> 0]

\* the lengths of the Writes the caller and Finalize make
WriteLens == ChunkLens \cup {1, 8}

(* C16: after any sequence of Reset, Write and Finalize calls, and inside  *)
(* Finalize, the buffer fill count is in 0..63, and every copy into the    *)
(* pending buffer that a Write would make stays inside its 64 bytes.       *)
C16_BufferBound ==
    /\ buflen \in 0..63
    /\ \A len \in WriteLens :
           \A c \in WriteCopies(Obj, len) : c[1] >= 0 /\ c[1] + c[2] <= 64

\* a Write on an instance that was finalized and not Reset, with a stale
\* fill count
C16_Witness ==
    /\ pc = "idle"
    /\ calls.final = 1
    /\ calls.since = <<1, 64>>
    /\ buflen = 56
    /\ WriteCopies(Obj, 64) = {<<56, 8>>, <<0, 56>>}

(* C17: after Reset and any sequence of Write calls the 64-bit value       *)
(* t[1]*2^32 + t[0] is 512 times the number of compressions since the      *)
(* Reset: each compression is preceded by one advance of 512, and t[1] is  *)
(* incremented exactly when t[0] wraps past 2^32.                          *)
C17_LengthCounter ==
    calls.final = 0 =>
        /\ t[0] = <<(ncompress \div 128) % 65536, (ncompress % 128) * 512>>
        /\ t[1] = <<0, ncompress \div 8388608>>

\* a Write of the block that wraps t[0]
C17_Witness ==
    /\ calls.write = 1
    /\ calls.reset = 0
    /\ ncompress = 8388608
    /\ t[0] = <<0, 0>>
    /\ t[1] = <<0, 1>>

(* C18: the flag is sticky.  Once operator()() has returned, and no        *)
(* reset() was under way when that operator()() was called or has been     *)
(* called since, the flag that operator bool() loads is true in every      *)
(* state, whichever thread loads it; once reset() has returned, and no     *)
(* operator()() was under way when it was called or has been called since, *)
(* the flag is false.                                                      *)
C18_StickyUnlessResetOverlaps ==
    /\ obs.sticky => flag
    /\ obs.cleared => ~flag

\* operator()() has returned with no reset() since it was called, one
\* thread has read the flag as true and the other had its sleep cut short
C18_Witness ==
    /\ obs.sticky
    /\ result["s1"] = "true"
    /\ result["s2"] = "false"
    /\ \A th \in Threads : tpc[th] = "idle"

(* C18 as the specification words it: once operator()() has returned the   *)
(* flag is true until reset() is called, where only the calls of reset()   *)
(* made after the return count.                                            *)
C18_StickyFlag ==
    /\ obs.returned => flag
    /\ obs.cleared => ~flag

RECURSIVE FirstRounds(_, _, _, _), ThenRounds(_, _, _, _)
FirstRounds(v, m, r, n) ==
    IF r < n THEN ThenRounds(Round(v, m, r), m, r, n) ELSE v
ThenRounds(w, m, r, n) ==
    IF w[0] = w[0] THEN FirstRounds(w, m, r + 1, n) ELSE w

\* the digest of a message that takes one compression, which leaves the
\* padded block in buf and the counter it was compressed with in t, when
\* the compression runs n rounds
OneBlockDigest(n) ==
    OutputHash([h |-> UpdateH(blake256_iv,
                    FirstRounds(InitialV([h |-> blake256_iv, t |-> t,
                                          nullt |-> nullt]),
                                BlockWords(buf), 0, n))])

(* C20: the Blake-256 of the block headers applies 8 rounds of the round   *)
(* function per compressed 64-byte block: the digest of a message that is  *)
(* compressed as one block is the chaining value after 8 rounds on it.     *)
C20_EightRounds ==
    (pc = "done" /\ calls.final = 1 /\ ncompress = 1) =>
        hash = OneBlockDigest(8)

\* the 64-byte block of k bytes of b, the marker byte, zero bytes up to
\* offset 55 and the eight bytes of field at offsets 56..63
FinalBlock(b, k, field) ==
    [i \in 0..63 |->
        IF i < k THEN b[i]
        ELSE IF i = k THEN (IF k = 55 THEN 129 ELSE 1)
        ELSE IF i <= 55 THEN 0
        ELSE field[i - 55]]

\* the instance as the Writes since the last Reset left it
BeforeFinalize == WriteChunks(NewObj, calls.since, 1, 0)

\* Finalize, called on the instance pre, made one compression, on the
\* final block of the pre.buflen buffered bytes with the bit length
\* 512 * compressed blocks + 8 * buffered bytes, and put out the chain
\* words of that compression
OneFinalBlock(pre) ==
    /\ fincompress = 1
    /\ buf = FinalBlock(pre.buf, pre.buflen,
                        BytesBE(W32(0)) \o BytesBE(W32(512 * pre.ncomp + 8 * pre.buflen)))
    /\ h = UpdateH(pre.h, RoundLoop(InitialV([h |-> pre.h, t |-> t, nullt |-> nullt]),
                                    BlockWords(buf), 0))
    /\ hash = OutputHash(Obj)

(* C21: final block layout.  When Finalize is called with k <= 55 buffered *)
(* bytes it makes exactly one compression, on the block of the k buffered  *)
(* bytes, the marker byte (0x81 if k = 55, else 0x01), zero bytes up to    *)
(* and including offset 55 and the 64-bit big-endian bit length at offsets *)
(* 56..63, and the digest is the eight chain words, big-endian.            *)
C21_FinalBlockLayout ==
    (pc = "done" /\ calls.final = 1) =>
        (BeforeFinalize.buflen <= 55 => OneFinalBlock(BeforeFinalize))

\* Finalize after a Write of 64 and one of 55 bytes: the marker 0x81 at
\* offset 55 and the bit length 952 behind it
C21_Witness ==
    /\ pc = "done"
    /\ calls.since = <<64, 55>>
    /\ fincompress = 1
    /\ buf[55] = 129
    /\ buf[62] = 3
    /\ buf[63] = 184

(* C24: counter at the final compression.  In the last compression of      *)
(* Finalize, after which t is not changed any more, t[0] is the bit length *)
(* 8 * n of the n bytes written since Reset, modulo 2^32, and t[1] has     *)
(* taken no carry, whichever padding branch was taken.                     *)
C24_CounterAtFinalCompression ==
    (pc = "done" /\ calls.final = 1) =>
        /\ t[0] = W32(8 * written)
        /\ t[1] = W32(0)

\* the index quadruples and the sigma positions of the eight G calls of a
\* round
Quadruples ==
    << <<0, 4, 8, 12>>, <<1, 5, 9, 13>>, <<2, 6, 10, 14>>, <<3, 7, 11, 15>>,
       <<3, 4, 9, 14>>, <<2, 7, 8, 13>>, <<0, 5, 10, 15>>, <<1, 6, 11, 12>> >>
Positions == <<0, 2, 4, 6, 14, 12, 8, 10>>

\* the G calls number j, j + 1, ... , n - 1 on v, eight to a round
RECURSIVE GSteps(_, _, _, _), ThenGSteps(_, _, _, _)
GSteps(v, m, j, n) ==
    IF j < n
    THEN ThenGSteps(G(v, m, Quadruples[(j % 8) + 1][1], Quadruples[(j % 8) + 1][2],
                      Quadruples[(j % 8) + 1][3], Quadruples[(j % 8) + 1][4],
                      j \div 8, Positions[(j % 8) + 1]), m, j, n)
    ELSE v
ThenGSteps(w, m, j, n) ==
    IF w[0] = w[0] THEN GSteps(w, m, j + 1, n) ELSE w

\* the table lookups of the G calls of compress stay inside the tables
LookupsInRange ==
    \A r \in 0..(Rounds - 1), k \in 1..Len(GCalls) :
        /\ r \in DOMAIN blake256_sigma
        /\ \A i \in {GCalls[k][5], GCalls[k][5] + 1} :
               /\ i \in DOMAIN blake256_sigma[r]
               /\ i \in 0..15
               /\ blake256_sigma[r][i] \in 0..15
               /\ blake256_sigma[r][i] \in DOMAIN blake256_cst

\* the rounds r, r + 1, ... , n - 1 on v, each the eight G calls of GSteps
RECURSIVE RoundSteps(_, _, _, _), ThenRoundSteps(_, _, _, _)
RoundSteps(v, m, r, n) ==
    IF r < n THEN ThenRoundSteps(GSteps(v, m, 8 * r, 8 * r + 8), m, r, n) ELSE v
ThenRoundSteps(w, m, r, n) ==
    IF w[0] = w[0] THEN RoundSteps(w, m, r + 1, n) ELSE w

\* the last compression, made by Finalize on the instance pre, was 14
\* rounds of the eight G calls and the fold into h
FourteenRounds(pre) ==
    h = UpdateH(pre.h, RoundSteps(InitialV([h |-> pre.h, t |-> t, nullt |-> nullt]),
                                  BlockWords(buf), 0, 14))

AfterBlocks(k) == WriteLoop(NewObj, StreamData(seed, 0, 64 * k), 0)

(* C23: buffering invariant of Write.  After Reset and Write calls that    *)
(* total n bytes, buflen = n mod 64, the first buflen bytes of the buffer  *)
(* are the last n mod 64 bytes written, and floor(n / 64) blocks have been *)
(* compressed, the j-th being bytes 64j..64j+63 of the input.              *)
C23_BufferingInvariant ==
    (pc = "idle" /\ calls.final = 0) =>
        /\ buflen = written % 64
        /\ \A i \in 0..(buflen - 1) :
               buf[i] = StreamByte(seed, written - (written % 64) + i)
        /\ ncompress = written \div 64
        /\ h = AfterBlocks(written \div 64).h

\* a window of the raw timespan a gives the tip of the last call a clamped
\* timespan and a next target no larger than the window of the call did
NoEasierThanCall(a) ==
    /\ ClampedTimespan(last.pindexLast.nHeight, a, params.nPowTargetTimespan)
           <= last.clamped
    /\ ~Gt256(SetCompact(CalculateNextWorkRequired(
                             [last.pindexLast EXCEPT !.nTime = last.nFirstBlockTime + a],
                             last.nFirstBlockTime, params)).value,
              SetCompact(last.ret).value)

(* C25: retarget monotonicity in elapsed time.  For a fixed tip, if the    *)
(* raw timespan a is at most b then the clamped timespan for a is at most  *)
(* that for b, and the window mined faster does not get a larger next      *)
(* target than the window mined slower.                                    *)
C25_RetargetMonotone ==
    (Calculated /\ ~params.fPowNoRetargeting) =>
        \A a \in RawTimespans : a <= RawTimespan => NoEasierThanCall(a)

\* the index in chain of the first block of the retarget interval of
\* chain[i]
IntervalStart(i) ==
    i - (chain[i].nHeight % DifficultyAdjustmentInterval(params))

(* C26: with min-difficulty blocks allowed, in a chain that starts at a    *)
(* genesis of height 0 and whose blocks all have the nBits                 *)
(* GetNextWorkRequired gives for their parent, every block at a height not *)
(* divisible by the retarget interval has the compact powLimit or the      *)
(* nBits of the first block of its retarget interval.                      *)
C26_IntervalBits ==
    (params.fPowAllowMinDifficultyBlocks /\ chain[1].nHeight = 0) =>
        \A i \in Built :
            ~Boundary(i) =>
                chain[i].nBits \in {LimitCompact(params),
                                    chain[IntervalStart(i)].nBits}

\* after a retarget at height 20 that changed nBits, the block of height 21
\* came late and has the powLimit, the block of height 22 came on time and
\* has the nBits of the block of height 20
C26_Witness ==
    /\ params.fPowAllowMinDifficultyBlocks
    /\ chain[1].nHeight = 0
    /\ Len(chain) >= 23
    /\ chain[21].nBits # chain[20].nBits
    /\ chain[21].nBits # LimitCompact(params)
    /\ chain[22].nBits = LimitCompact(params)
    /\ chain[23].nBits = chain[21].nBits

\* the block the next call of GetNextWorkRequired is made for is at a
\* retarget boundary
NextIsBoundary ==
    (chain[Len(chain)].nHeight + 1) % DifficultyAdjustmentInterval(params) = 0

(* C27: the assertions of GetNextWorkRequired hold on a well-formed chain. *)
(* The tip is not null, and whenever the boundary branch is taken          *)
(* nHeightFirst = tip height - (RetargetInterval - 1) is at least 0 and    *)
(* the ancestor lookup returns a block, the one of that height.            *)
C27_AssertionsHold ==
    /\ chain # <<>>
    /\ NextIsBoundary =>
           /\ nHeightFirst(chain[Len(chain)], params) >= 0
           /\ nHeightFirst(chain[Len(chain)], params) - chain[1].nHeight + 1
                  \in DOMAIN chain
           /\ GetAncestor(chain, nHeightFirst(chain[Len(chain)], params)).nHeight
                  = nHeightFirst(chain[Len(chain)], params)

\* the tip of height 19 on the genesis of height 0: nHeightFirst is 0, and
\* the block of height 20 has been built on it
C27_Witness ==
    /\ chain[1].nHeight = 0
    /\ Len(chain) = 21
    /\ nHeightFirst(chain[20], params) = 0
    /\ GetAncestor(chain, 0) = chain[1]

\* thread th has returned from sleep_for and made no call since
Slept(th) == tpc[th] = "idle" /\ obs.seen[th] # "none"

(* C28: return value of sleep_for.  It returns false exactly when the flag *)
(* was set at its last read of it, which it makes with the mutex held, and *)
(* true only when the duration elapsed and the flag was clear at that read *)
(* and is clear at the return; called after operator()() has returned,     *)
(* with no reset() overlapping that call or called since, it returns false *)
(* without waiting.                                                        *)
C28_ReturnValueAtLastRead ==
    \A th \in Sleepers :
        /\ Slept(th) =>
               /\ result[th] = "false" <=> obs.pred[th]
               /\ result[th] = "true" =>
                      obs.slept[th] = "timedout" /\ obs.seen[th] = "clear"
               /\ obs.armed[th] => result[th] = "false" /\ obs.slept[th] = "no"
        /\ obs.armed[th] => tpc[th] \notin {"sf_wait", "sf_timedout", "sf_ret_true"}

\* one sleeper was called with the flag set and returned false without
\* waiting, the other had waited its duration and returned true
C28_Witness ==
    /\ Slept("s1")
    /\ obs.armed["s1"]
    /\ result["s1"] = "false"
    /\ obs.slept["s1"] = "no"
    /\ Slept("s2")
    /\ result["s2"] = "true"
    /\ obs.slept["s2"] = "timedout"

(* C28 as the specification words it: sleep_for returns false exactly when *)
(* the flag is set at the moment it returns, and true only when the full   *)
(* duration elapsed with the flag clear; called while the flag is set it   *)
(* returns false without waiting.                                          *)
C28_ReturnValue ==
    \A th \in Sleepers :
        Slept(th) =>
            /\ result[th] = "false" <=> obs.seen[th] = "set"
            /\ result[th] = "true" =>
                   obs.slept[th] = "timedout" /\ obs.seen[th] = "clear"
            /\ obs.armed[th] => result[th] = "false" /\ obs.slept[th] = "no"

(* C29: a newly constructed CThreadInterrupt is not interrupted.  Until    *)
(* operator()() is first called the flag is clear: operator bool()         *)
(* returns false, and sleep_for waits its full duration and returns true.  *)
C29_ConstructedNotInterrupted ==
    ~obs.called =>
        /\ ~flag
        /\ \A th \in Sleepers :
               (tpc[th] = "idle" /\ result[th] # "none") =>
                   IF obs.seen[th] = "none"
                   THEN result[th] = "false"
                   ELSE result[th] = "true" /\ obs.slept[th] = "timedout"

\* the object c has the counter, the buffer, the fill count and the null-t
\* flag of the instance
SameFrame(c) ==
    /\ c.t = t
    /\ c.buf = buf
    /\ c.buflen = buflen
    /\ c.nullt = nullt

(* C30: frame of the hash operations.  A compression changes the chain     *)
(* values only and leaves t, the buffer, buflen and the null-t flag as     *)
(* they are; Write never changes the null-t flag, which is therefore clear *)
(* in every compression made between Reset and the start of Finalize.      *)
(* The frame of a compression is stated of one made on the instance        *)
(* Finalize leaves, whose counter, fill count and null-t flag are not 0.   *)
C30_Frame ==
    /\ pc = "done" => SameFrame(compress(Obj, buf))
    /\ pc \in {"idle", "done"} => Write(Obj, <<0>>).nullt = nullt
    /\ calls.final = 0 => nullt = 0

\* two blocks were compressed by Writes since the Reset, Finalize has not
\* started
C30_Witness ==
    /\ calls.reset = 1
    /\ calls.final = 0
    /\ calls.since = <<64, 64>>
    /\ ncompress = 2
    /\ nullt = 0

====
